---- MODULE Spec2Model ----
(***************************************************************************)
(* The summarize request pipeline of yt_summ: the multi-provider POST      *)
(* handler (src/unnamed/part_005) and the xAI-only POST handler            *)
(* (src/app/api/summarize/route.ts), with their helpers extractVideoId,    *)
(* getTranscript, createSystemMessage, createPrompt and LLM_CONFIGS.       *)
(*                                                                         *)
(* One request is followed from the arrival of its body to its response.   *)
(* The handler suspends at request.json(), at the transcript retrieval and *)
(* at the completion call; every action runs the code between two          *)
(* suspension points.  The results of the two collaborators are inputs.    *)
(***************************************************************************)
EXTENDS Integers, Sequences, FiniteSets

VARIABLES
    route,        \* which handler serves the request: "multi" or "xai"
    request,      \* the request body: unparseable, or the parsed SummaryRequest
    pc,           \* position of the handler
    videoId,      \* const videoId (a JS value), NotYet before line 91 has run
    outcome,      \* what POST has produced: pending, a Response, or an uncaught error
    calls,        \* the external calls issued so far, in order
    steps,        \* the pipeline steps executed so far, in order
    transcriptOutcome,  \* what the transcript collaborator answered
    transcriptResult,   \* const [transcript, error] of line 99, NotYet before
    completionOutcome,  \* what the completion service answered
    llmConfigs,   \* the module-level object LLM_CONFIGS as it is now
    suspended,    \* the other invocations of POST, each with its own locals
    featureRequests,  \* part_003: the module-level cache of feature requests
    answered,     \* part_003: the POSTs answered so far, with their status
    youtubeUrl,   \* YoutubeSummarizer: the state of the same name
    apiKey,
    customPromptState,  \* the state customPrompt
    isLoading,
    summary,
    errorState,   \* the state error
    responseState,  \* the state response
    loadingInterval,  \* loadingInterval.current
    intervals,    \* the timers started by setInterval and not cleared
    fetches       \* the requests sent to /api/summarize, with their results

\* the locals of the invocation of POST that is running
postVars == <<route, request, pc, videoId, outcome, calls, steps,
              transcriptOutcome, transcriptResult, completionOutcome>>

\* the module-level objects of the two route modules
moduleVars == <<llmConfigs, featureRequests>>

\* the page: the state and the ref of YoutubeSummarizer, and what the
\* browser holds for it
uiVars == <<youtubeUrl, apiKey, customPromptState, isLoading, summary,
            errorState, responseState, loadingInterval, intervals, fetches>>

\* what lives outside one invocation of POST
outsideVars == <<moduleVars, suspended, uiVars, answered>>

vars == <<postVars, outsideVars>>

----------------------------------------------------------------------------
(* JavaScript values: a string, undefined, null, a number or an object.    *)

Undefined == [t |-> "undefined"]
Null == [t |-> "null"]
Str(s) == [t |-> "string", v |-> s]
Num(n) == [t |-> "number", v |-> n]
Bool(b) == [t |-> "boolean", v |-> b]

\* !x
Falsy(x) ==
    \/ x.t \in {"undefined", "null"}
    \/ (x.t = "string" /\ x.v = "")
    \/ (x.t = "number" /\ x.v = 0)
    \/ (x.t = "boolean" /\ x.v = FALSE)

\* `${x}` in a template literal
TemplateString(x) == IF x.t = "string" THEN x.v ELSE x.t

\* obj.field, undefined when the object has no such field
Get(obj, field) == IF field \in DOMAIN obj THEN obj[field] ELSE Undefined

\* obj?.field
OptGet(obj, field) ==
    IF obj.t \in {"undefined", "null"} THEN Undefined ELSE Get(obj, field)

\* JSON.stringify(obj): properties whose value is undefined are left out
JsonStringify(obj) ==
    [k \in {f \in DOMAIN obj : obj[f] /= Undefined} |-> obj[k]]

\* a thrown value: an Error carrying a message, or some other value (which
\* has no message)
ErrorOf(msg) == [isError |-> TRUE, message |-> msg]
NonError(val) == [isError |-> FALSE, value |-> val]

----------------------------------------------------------------------------
(* extractVideoId                                                          *)

IdLen == 11

IdChars ==
    {"0", "1", "2", "3", "4", "5", "6", "7", "8", "9",
     "A", "B", "C", "D", "E", "F", "G", "H", "I", "J", "K", "L", "M",
     "N", "O", "P", "Q", "R", "S", "T", "U", "V", "W", "X", "Y", "Z",
     "a", "b", "c", "d", "e", "f", "g", "h", "i", "j", "k", "l", "m",
     "n", "o", "p", "q", "r", "s", "t", "u", "v", "w", "x", "y", "z",
     "_", "-"}

\* the literal lit stands in s at position i
HasAt(s, i, lit) ==
    /\ i + Len(lit) - 1 <= Len(s)
    /\ SubSeq(s, i, i + Len(lit) - 1) = lit

\* ([0-9A-Za-z_-]{11}) matches in s at position i
IdAt(s, i) ==
    /\ i + IdLen - 1 <= Len(s)
    /\ \A k \in i..(i + IdLen - 1) : SubSeq(s, k, k) \in IdChars

\* (?:alt1|alt2|...)([0-9A-Za-z_-]{11}) tried in s at position i, the
\* alternatives in order from the a-th: the captured group, or null
RECURSIVE CaptureAt(_, _, _, _)
CaptureAt(s, i, alts, a) ==
    IF a > Len(alts) THEN Null
    ELSE IF HasAt(s, i, alts[a]) /\ IdAt(s, i + Len(alts[a]))
    THEN Str(SubSeq(s, i + Len(alts[a]), i + Len(alts[a]) + IdLen - 1))
    ELSE CaptureAt(s, i, alts, a + 1)

\* the match is looked for at position i, then at i + 1, ...: the leftmost wins
RECURSIVE ScanFrom(_, _, _)
ScanFrom(s, i, alts) ==
    IF i > Len(s) THEN Null
    ELSE LET m == CaptureAt(s, i, alts, 1)
         IN  IF m /= Null THEN m ELSE ScanFrom(s, i + 1, alts)

\* url.match(pattern): match[1] of the leftmost match, or null when nothing
\* matches
RegexCapture(s, alts) == ScanFrom(s, 1, alts)

\* the first pattern without its v= alternative
patternsWithoutQueryForm == << <<"/">>, <<"youtu.be/">>, <<"embed/">> >>

\* the three patterns, each the alternatives of its non-capturing group
patterns == << <<"v=", "/">>, <<"youtu.be/">>, <<"embed/">> >>

RECURSIVE FirstMatch(_, _, _)
FirstMatch(url, ps, n) ==
    IF n > Len(ps) THEN Null
    ELSE LET m == RegexCapture(url, ps[n])
         IN  IF m /= Null THEN m ELSE FirstMatch(url, ps, n + 1)

extractVideoId(url) == FirstMatch(url, patterns, 1)

----------------------------------------------------------------------------
(* getTranscript                                                           *)

\* the join taking the segments last to first
RECURSIVE JoinReversed(_, _)
JoinReversed(texts, sep) ==
    IF texts = <<>> THEN ""
    ELSE IF Len(texts) = 1 THEN texts[1]
    ELSE JoinReversed(Tail(texts), sep) \o sep \o texts[1]

\* transcript.map(t => t.text).join(' ')
RECURSIVE Join(_, _)
Join(texts, sep) ==
    IF texts = <<>> THEN ""
    ELSE IF Len(texts) = 1 THEN texts[1]
    ELSE texts[1] \o sep \o Join(Tail(texts), sep)

\* getTranscript dropping the thrown Error's message
getTranscriptFixedReason(o) ==
    IF o.kind = "ok"
    THEN <<Str(Join(o.segments, " ")), Null>>
    ELSE <<Null, Str("Failed to fetch transcript")>>

\* the pair [fullText, error] for the collaborator's answer o: o is either
\* the caption segments' texts, or a thrown value
getTranscript(o) ==
    IF o.kind = "ok"
    THEN <<Str(Join(o.segments, " ")), Null>>
    ELSE <<Null,
           Str(IF o.thrown.isError THEN o.thrown.message
               ELSE "Failed to fetch transcript")>>

----------------------------------------------------------------------------
(* createSystemMessage, createPrompt: the multi-provider handler's and the *)
(* xAI-only handler's                                                      *)

createSystemMessage(targetLanguage) ==
    "You are a helpful assistant that provides an accurate and relevant response to a user prompt, based on a video transcript they provide. Make sure your response sounds natural and fluent in "
    \o TemplateString(targetLanguage) \o "."

\* line 46
ShortPrompt(transcript, targetLanguage) ==
    "Please provide a very concise summary of the following transcript in "
    \o TemplateString(targetLanguage)
    \o ". Format your response as plain bullet points (without bold formatting), using a maximum of 4 sentences:\n\n"
    \o transcript

\* line 48
CustomPrompt(transcript, targetLanguage, customPrompt) ==
    "Please provide your response in " \o TemplateString(targetLanguage)
    \o ". User prompt:\n\n" \o TemplateString(customPrompt)
    \o "\n\n\n\nTranscript:\n\n" \o transcript

\* line 50
DetailedPrompt(transcript, targetLanguage) ==
    "Please provide a detailed full summary of the following transcript. Provide the summary in "
    \o TemplateString(targetLanguage) \o ":\n\n" \o transcript

\* createPrompt without its first branch
createPromptNoShortBranch(transcript, summaryType, targetLanguage, customPrompt) ==
    IF summaryType = Str("custom") /\ ~Falsy(customPrompt)
    THEN CustomPrompt(transcript, targetLanguage, customPrompt)
    ELSE DetailedPrompt(transcript, targetLanguage)

\* createPrompt putting the transcript before the user's prompt
createPromptTranscriptFirst(transcript, summaryType, targetLanguage, customPrompt) ==
    IF summaryType = Str("short")
    THEN ShortPrompt(transcript, targetLanguage)
    ELSE IF summaryType = Str("custom") /\ ~Falsy(customPrompt)
    THEN CustomPrompt(TemplateString(customPrompt), targetLanguage, Str(transcript))
    ELSE DetailedPrompt(transcript, targetLanguage)

\* createPrompt falling back to the short template
createPromptShortFallback(transcript, summaryType, targetLanguage, customPrompt) ==
    IF summaryType = Str("detailed")
    THEN DetailedPrompt(transcript, targetLanguage)
    ELSE IF summaryType = Str("custom") /\ ~Falsy(customPrompt)
    THEN CustomPrompt(transcript, targetLanguage, customPrompt)
    ELSE ShortPrompt(transcript, targetLanguage)

createPrompt(transcript, summaryType, targetLanguage, customPrompt) ==
    IF summaryType = Str("short")
    THEN ShortPrompt(transcript, targetLanguage)
    ELSE IF summaryType = Str("custom") /\ ~Falsy(customPrompt)
    THEN CustomPrompt(transcript, targetLanguage, customPrompt)
    ELSE DetailedPrompt(transcript, targetLanguage)

xaiCreateSystemMessage(targetLanguage) ==
    "You are an assistant that summarizes text. Always provide your response in "
    \o TemplateString(targetLanguage)
    \o ". Make sure the summary sounds natural and fluent in "
    \o TemplateString(targetLanguage) \o "."

xaiCreatePrompt(transcript, summaryType, targetLanguage, customPrompt) ==
    IF summaryType = Str("short")
    THEN "Please provide a very concise summary of the following transcript, using a maximum of 4 sentences in bullet points. Provide the summary in "
         \o TemplateString(targetLanguage) \o ":\n\n" \o transcript
    ELSE IF summaryType = Str("custom") /\ ~Falsy(customPrompt)
    THEN TemplateString(customPrompt) \o "\n\nProvide the response in "
         \o TemplateString(targetLanguage) \o ".\n\nTranscript:\n" \o transcript
    ELSE "Please provide a comprehensive summary of the following transcript. Provide the summary in "
         \o TemplateString(targetLanguage) \o ":\n\n" \o transcript

----------------------------------------------------------------------------
(* LLM_CONFIGS and the lookup LLM_CONFIGS[llm_provider]                    *)

LLMConfig(model, baseURL) ==
    [t |-> "object", model |-> Str(model), baseURL |-> Str(baseURL)]

LLM_CONFIGS ==
    [deepseek |-> LLMConfig("deepseek-chat", "https://api.deepseek.com"),
     gemini |-> LLMConfig("gemini-2.0-flash-exp",
                          "https://generativelanguage.googleapis.com/v1beta/"),
     xai |-> LLMConfig("grok-2-1212", "https://api.x.ai/v1"),
     openai |-> LLMConfig("gpt-4o", "https://api.openai.com/v1")]

\* LLM_CONFIGS is an object literal: besides its own four properties it
\* inherits those of Object.prototype, each a function or an object that is
\* truthy and has neither a model nor a baseURL property
ObjectPrototypeKeys ==
    {"constructor", "toString", "toLocaleString", "valueOf", "hasOwnProperty",
     "isPrototypeOf", "propertyIsEnumerable", "__proto__",
     "__defineGetter__", "__defineSetter__", "__lookupGetter__",
     "__lookupSetter__"}

\* LLM_CONFIGS[llm_provider]: the property key is the selector as a string
ConfigLookup(llm_provider) ==
    LET key == TemplateString(llm_provider)
    IN  IF key \in DOMAIN llmConfigs THEN llmConfigs[key]
        ELSE IF key \in ObjectPrototypeKeys THEN [t |-> "inherited"]
        ELSE Undefined

XAI_MODEL == "grok-beta"
XAI_BASE_URL == "https://api.x.ai/v1"

----------------------------------------------------------------------------
(* The responses of POST                                                   *)

Pending == [kind |-> "pending"]

\* a Response that leaves the status at its default, 200
ResponseDefaultStatus(body, status) ==
    [kind |-> "response", status |-> 200, body |-> JsonStringify(body)]

\* new Response(JSON.stringify(body), { status })
Response(body, status) ==
    [kind |-> "response", status |-> status, body |-> JsonStringify(body)]

\* content.trim()
Whitespace == {" ", "\n", "\t", "\r"}

RECURSIVE TrimStart(_)
TrimStart(s) ==
    IF Len(s) > 0 /\ SubSeq(s, 1, 1) \in Whitespace
    THEN TrimStart(SubSeq(s, 2, Len(s))) ELSE s

RECURSIVE TrimEnd(_)
TrimEnd(s) ==
    IF Len(s) > 0 /\ SubSeq(s, Len(s), Len(s)) \in Whitespace
    THEN TrimEnd(SubSeq(s, 1, Len(s) - 1)) ELSE s

Trim(s) == TrimEnd(TrimStart(s))

\* response.choices[0]?.message?.content
ContentOf(response) ==
    LET first == IF Len(response.choices) >= 1 THEN response.choices[1]
                 ELSE Undefined
    IN  OptGet(OptGet(first, "message"), "content")

\* the counter without its default
TokenCountNoDefault(usage, counter) == OptGet(usage, counter)

\* response.usage?.<counter> || 0
TokenCount(usage, counter) ==
    LET n == OptGet(usage, counter) IN IF Falsy(n) THEN Num(0) ELSE n

\* lines 135-149: the SummaryResponse and its Response
SuccessResponse(content, model, usage) ==
    Response([success |-> Bool(TRUE),
              summary |-> Str(Trim(content.v)),
              model |-> model,
              tokens |-> [t |-> "object",
                          total |-> TokenCount(usage, "total_tokens"),
                          prompt |-> TokenCount(usage, "prompt_tokens"),
                          completion |-> TokenCount(usage, "completion_tokens")]],
             200)

\* a catch block that throws the error on
CatchBlockRethrows(error) == [kind |-> "uncaught", error |-> error]

\* a catch block answering without a detail
CatchBlockNoDetail(error) == Response([success |-> Bool(FALSE)], 500)

\* lines 151-160: the catch block of POST
CatchBlock(error) ==
    Response([detail |-> Str(IF error.isError THEN error.message
                             ELSE "An unexpected error occurred")],
             500)

\* the check comparing with undefined only, so that '' passes
MissingFieldsUndefinedOnly(d) ==
    d.youtube_url = Undefined \/ d.api_key = Undefined

\* lines 83-88
MissingFields(d) == Falsy(d.youtube_url) \/ Falsy(d.api_key)

MissingFieldsResponse ==
    Response([detail |-> Str("Please provide both YouTube URL and API key")], 400)

\* the handler without the check of the key format
XaiKeyFormatUnchecked(api_key) == TRUE

\* route.ts lines 66-71: !api_key.startsWith('xai-')
XaiKeyFormatOk(api_key) == HasAt(api_key.v, 1, "xai-")

XaiKeyFormatResponse ==
    Response([detail |-> Str("Invalid API key format. X.AI API keys should start with 'xai-'")],
             400)

\* the result of extractVideoId left unchecked
NoVideoIdUnchecked(id) == FALSE

\* lines 92-97
NoVideoId(id) == Falsy(id)

InvalidUrlResponse ==
    Response([detail |-> Str("Invalid YouTube URL. Please check and try again.")], 400)

\* the check comparing with null only, so that '' passes
NoTranscriptNullOnly(transcript) == transcript = Null

\* lines 100-105
NoTranscript(transcript) == Falsy(transcript)

TranscriptFailurePrefix == "Failed to retrieve transcript: "

TranscriptFailureResponse(error) ==
    Response([detail |-> Str(TranscriptFailurePrefix \o TemplateString(error))], 400)

\* lines 108-113
NoConfig(config) == Falsy(config)

InvalidProviderResponse ==
    Response([detail |-> Str("Invalid LLM provider selected")], 400)

\* the check comparing with null and undefined only, so that '' passes
NoContentNullOnly(content) == content.t \in {"null", "undefined"}

\* lines 131-133
NoContent(content) == Falsy(content)

NoContentError == ErrorOf("No response content from API")

----------------------------------------------------------------------------
(* The inputs: request bodies and the collaborators' answers               *)

MaxSegments == 2

SegmentTexts == {"", "a", "b"}

VideoReferences ==
    {Undefined, Str(""), Str("not a video"),
     Str("https://www.youtube.com/watch?v=ABCDEFGHIJK&t=30s"),
     Str("https://example.com/abcdefghijk")}

Credentials == {Undefined, Str(""), Str("sk-test"), Str("xai-test")}

Languages == {Str("English")}

SummaryTypes ==
    {Undefined, Str("short"), Str("detailed"), Str("custom"), Str("full")}

CustomPrompts == {Undefined, Str(""), Str("List the key points.")}

ProviderSelectors ==
    {Undefined, Str("deepseek"), Str("gemini"), Str("xai"), Str("openai"),
     Str("unknown-llm"), Str("constructor")}

\* the SummaryRequest of the xAI-only handler has no llm_provider
SummaryRequests(r) ==
    [youtube_url : VideoReferences, api_key : Credentials,
     output_language : Languages, summary_type : SummaryTypes,
     custom_prompt : CustomPrompts,
     llm_provider : IF r = "multi" THEN ProviderSelectors ELSE {Undefined}]

NoData == [youtube_url : {Undefined}, api_key : {Undefined},
           output_language : {Undefined}, summary_type : {Undefined},
           custom_prompt : {Undefined}, llm_provider : {Undefined}]

\* a body that is no JSON, the JSON text null, or a JSON object
Requests(r) ==
    {[json |-> j, data |-> d] : j \in {"invalid", "null"}, d \in NoData}
    \cup {[json |-> "object", data |-> d] : d \in SummaryRequests(r)}

NoAnswer == [kind |-> "none"]

TranscriptOutcomes ==
    {[kind |-> "ok", segments |-> segs] :
        segs \in UNION {[1..n -> SegmentTexts] : n \in 0..MaxSegments}}
    \cup {[kind |-> "throw", thrown |-> e] :
        e \in {ErrorOf("Transcript is disabled on this video"), ErrorOf(""),
               NonError("service unavailable")}}

Message(content) == [t |-> "object", content |-> content]
Choice(message) == [t |-> "object", message |-> message]

Usages ==
    {Undefined,
     [t |-> "object", total_tokens |-> Num(30), prompt_tokens |-> Num(20),
      completion_tokens |-> Num(10)],
     [t |-> "object", prompt_tokens |-> Num(20), completion_tokens |-> Num(0)]}

CompletionOutcomes ==
    {[kind |-> "throw", thrown |-> e] :
        e \in {ErrorOf("401 Incorrect API key provided"), NonError("ECONNRESET")}}
    \cup {[kind |-> "ok", response |-> [choices |-> c, usage |-> Undefined]] :
        c \in {<<>>, <<[t |-> "object"]>>, <<Choice(Message(Null))>>,
               <<Choice(Message(Str("")))>>}}
    \cup {[kind |-> "ok",
           response |-> [choices |-> <<Choice(Message(Str(c)))>>, usage |-> u]] :
        c \in {" - point one\n - point two\n", "  "}, u \in Usages}

----------------------------------------------------------------------------
(* POST                                                                    *)

NotYet == [t |-> "notyet"]

\* youtube-summarizer.tsx lines 59-71: the component as it is mounted
Mounted ==
    /\ youtubeUrl = ""
    /\ apiKey = ""
    /\ customPromptState = ""
    /\ isLoading = FALSE
    /\ summary = ""
    /\ errorState = ""
    /\ responseState = Null
    /\ loadingInterval = Undefined
    /\ intervals = {}
    /\ fetches = <<>>

\* the modules have been evaluated, and no other invocation is under way
ModuleLoaded ==
    /\ llmConfigs = LLM_CONFIGS
    /\ featureRequests = <<>>
    /\ answered = <<>>
    /\ suspended = <<>>
    /\ Mounted

Init ==
    /\ route \in {"multi", "xai"}
    /\ request \in Requests(route)
    /\ pc = "json"
    /\ videoId = NotYet
    /\ outcome = Pending
    /\ calls = <<>>
    /\ steps = <<>>
    /\ transcriptOutcome = NoAnswer
    /\ transcriptResult = NotYet
    /\ completionOutcome = NoAnswer
    /\ ModuleLoaded

\* POST returns r (or, were r no Response, ends with it) after running ss
Return(r, ss) ==
    /\ outcome' = r
    /\ pc' = "done"
    /\ steps' = steps \o ss

\* the error thrown at lines 80-81 for a body that is no JSON object
BodyError(json) ==
    IF json = "invalid" THEN ErrorOf("Unexpected token in JSON")
    ELSE ErrorOf("Cannot destructure property 'youtube_url' of 'data' as it is null.")

\* lines 80-99: from the arrival of the body to the transcript request
ParseRequest ==
    /\ pc = "json"
    /\ UNCHANGED <<route, request, transcriptOutcome, transcriptResult,
                   completionOutcome, outsideVars>>
    /\ IF request.json /= "object"
       THEN /\ Return(CatchBlock(BodyError(request.json)), <<"parse">>)
            /\ UNCHANGED <<videoId, calls>>
       ELSE LET d == request.data IN
            IF MissingFields(d)
            THEN /\ Return(MissingFieldsResponse, <<"parse", "validate">>)
                 /\ UNCHANGED <<videoId, calls>>
            ELSE IF route = "xai" /\ ~XaiKeyFormatOk(d.api_key)
            THEN /\ Return(XaiKeyFormatResponse, <<"parse", "validate">>)
                 /\ UNCHANGED <<videoId, calls>>
            ELSE LET id == extractVideoId(d.youtube_url.v) IN
                 /\ videoId' = id
                 /\ IF NoVideoId(id)
                    THEN /\ Return(InvalidUrlResponse,
                                   <<"parse", "validate", "extractVideoId">>)
                         /\ UNCHANGED calls
                    ELSE /\ calls' = Append(calls, [svc |-> "transcript",
                                                    videoId |-> id])
                         /\ steps' = steps \o <<"parse", "validate",
                                                "extractVideoId", "fetchTranscript">>
                         /\ pc' = "transcript"
                         /\ UNCHANGED outcome

\* the model name of the xAI-only handler in both handlers
ModelUsedXaiOnly(d) == Str(XAI_MODEL)

\* config.model (line 138), 'grok-beta' in the xAI-only handler (route.ts 112)
ModelUsed(d) ==
    IF route = "multi" THEN Get(ConfigLookup(d.llm_provider), "model")
    ELSE Str(XAI_MODEL)

\* the chat.completions.create request of lines 115-128 (route.ts 89-102)
CompletionCall(d, transcript, config) ==
    IF route = "multi"
    THEN [svc |-> "completion", apiKey |-> d.api_key,
          baseURL |-> Get(config, "baseURL"), model |-> Get(config, "model"),
          system |-> createSystemMessage(d.output_language),
          user |-> createPrompt(transcript.v, d.summary_type,
                                d.output_language, d.custom_prompt),
          max_tokens |-> 2048, temperature |-> "0.7"]
    ELSE [svc |-> "completion", apiKey |-> d.api_key,
          baseURL |-> Str(XAI_BASE_URL), model |-> Str(XAI_MODEL),
          system |-> xaiCreateSystemMessage(d.output_language),
          user |-> xaiCreatePrompt(transcript.v, d.summary_type,
                                   d.output_language, d.custom_prompt),
          max_tokens |-> 300, temperature |-> "0.5"]

\* lines 99-128: from the transcript collaborator's answer to the completion
\* request
SettleTranscript(o) ==
    /\ transcriptOutcome' = o
    /\ transcriptResult' = getTranscript(o)
    /\ LET d == request.data
           transcript == getTranscript(o)[1]
           error == getTranscript(o)[2]
           config == ConfigLookup(d.llm_provider)
       IN  IF NoTranscript(transcript)
           THEN /\ Return(TranscriptFailureResponse(error), <<>>)
                /\ UNCHANGED calls
           ELSE IF route = "multi" /\ NoConfig(config)
           THEN /\ Return(InvalidProviderResponse, <<"resolveProvider">>)
                /\ UNCHANGED calls
           ELSE /\ calls' = Append(calls, CompletionCall(d, transcript, config))
                /\ steps' = steps \o (IF route = "multi"
                                      THEN <<"resolveProvider">> ELSE <<>>)
                                  \o <<"createPrompt", "completion">>
                /\ pc' = "completion"
                /\ UNCHANGED outcome

\* a handler that asks for the transcript once more when the retrieval threw
TranscriptSettlesRetrying ==
    /\ pc = "transcript"
    /\ UNCHANGED <<route, request, videoId, completionOutcome, outsideVars>>
    /\ \E o \in TranscriptOutcomes :
        IF o.kind = "throw" /\ Len(calls) < 2
        THEN /\ calls' = Append(calls, calls[1])
             /\ transcriptOutcome' = o
             /\ UNCHANGED <<pc, outcome, steps, transcriptResult>>
        ELSE SettleTranscript(o)

\* the await of line 99 ends with one of the answers os
TranscriptSettlesAmong(os) ==
    /\ pc = "transcript"
    /\ UNCHANGED <<route, request, videoId, completionOutcome, outsideVars>>
    /\ \E o \in os : SettleTranscript(o)

TranscriptSettles == TranscriptSettlesAmong(TranscriptOutcomes)

\* lines 130-160: from the completion service's answer to the response
CompletionSettlesAmong(os) ==
    /\ pc = "completion"
    /\ UNCHANGED <<route, request, videoId, calls, transcriptOutcome,
                   transcriptResult, outsideVars>>
    /\ \E o \in os :
        /\ completionOutcome' = o
        /\ IF o.kind = "throw"
           THEN Return(CatchBlock(o.thrown), <<>>)
           ELSE LET content == ContentOf(o.response) IN
                IF NoContent(content)
                THEN Return(CatchBlock(NoContentError), <<>>)
                ELSE Return(SuccessResponse(content, ModelUsed(request.data),
                                            o.response.usage),
                            <<"shape">>)

CompletionSettles == CompletionSettlesAmong(CompletionOutcomes)

Next == ParseRequest \/ TranscriptSettles \/ CompletionSettles

Spec == Init /\ [][Next]_vars

----------------------------------------------------------------------------
(* extractVideoId on its own: the references are inputs, one call each     *)

Identifiers ==
    {"ABCDEFGHIJK", "dQw4w9WgXcQ", "0123456789a", "-----------",
     "___________", "v_v-v_v-v_v", "embed-watch", "zZ9_-aB3xY0"}

WatchPrefixes ==
    {"https://www.youtube.com/watch?v=", "http://youtube.com/watch?v=",
     "www.youtube.com/watch?v=", "https://m.youtube.com/watch?v=",
     "https://music.youtube.com/watch?v="}

ShortPrefixes == {"https://youtu.be/", "http://youtu.be/", "youtu.be/"}

EmbedPrefixes ==
    {"https://www.youtube.com/embed/", "www.youtube.com/embed/",
     "https://www.youtube-nocookie.com/embed/"}

WatchSuffixes ==
    {"", "&t=30s", "&list=PL0123456789abcdef&index=2", "&feature=youtu.be",
     "#t=1m", "/zzzzzzzzzzz"}

ShortSuffixes == {"", "?t=30", "?si=AbCdEfGhIjKlMnOp", "/", "/zzzzzzzzzzz"}

EmbedSuffixes == {"", "?start=30", "?rel=0&autoplay=1", "/", "/zzzzzzzzzzz"}

\* the references to the video x in the three supported forms
ReferencesTo(x) ==
    {p \o x \o t : p \in WatchPrefixes, t \in WatchSuffixes}
    \cup {p \o x \o t : p \in ShortPrefixes, t \in ShortSuffixes}
    \cup {p \o x \o t : p \in EmbedPrefixes, t \in EmbedSuffixes}

OtherReferences ==
    {"", "not a video", "https://www.youtube.com/watch?v=short",
     "https://www.youtube.com/", "https://vimeo.com/123456789",
     "https://example.com/abcdefghijk",
     "https://www.youtube.com/channel/UCuAXFkgsw1L7xaCfnd5JJOw",
     "https://www.youtube.com/playlist?list=PL0123456789abcdef"}

References == (UNION {ReferencesTo(x) : x \in Identifiers}) \cup OtherReferences

InitExtract ==
    /\ route = "multi"
    /\ request \in {[json |-> "object",
                     data |-> [youtube_url |-> Str(r), api_key |-> Str("sk-test"),
                               output_language |-> Str("English"),
                               summary_type |-> Str("short"),
                               custom_prompt |-> Undefined,
                               llm_provider |-> Str("openai")]] :
                    r \in References}
    /\ pc = "extract"
    /\ videoId = NotYet
    /\ outcome = Pending
    /\ calls = <<>>
    /\ steps = <<>>
    /\ transcriptOutcome = NoAnswer
    /\ transcriptResult = NotYet
    /\ completionOutcome = NoAnswer
    /\ ModuleLoaded

\* line 91: const videoId = extractVideoId(youtube_url)
ExtractIdentifier ==
    /\ pc = "extract"
    /\ videoId' = extractVideoId(request.data.youtube_url.v)
    /\ pc' = "extracted"
    /\ UNCHANGED <<route, request, outcome, calls, steps, transcriptOutcome,
                   transcriptResult, completionOutcome, outsideVars>>

ExtractSpec == InitExtract /\ [][ExtractIdentifier]_vars

----------------------------------------------------------------------------
(* Properties of the summarize pipeline                                    *)

IsSuccess(body) ==
    /\ {"success", "summary", "tokens"} \subseteq DOMAIN body
    /\ body.success = Bool(TRUE)

IsFailure(body) == "detail" \in DOMAIN body

Parsed == request.json = "object"

NoCompletionCall == \A i \in 1..Len(calls) : calls[i].svc /= "completion"

NoTranscriptCall == \A i \in 1..Len(calls) : calls[i].svc /= "transcript"

Ran(step) == \E i \in 1..Len(steps) : steps[i] = step

UnlistedProvider ==
    /\ route = "multi"
    /\ Parsed
    /\ TemplateString(request.data.llm_provider)
          \notin {"deepseek", "gemini", "xai", "openai"}

\* C2: for a request whose provider selector is not a supported provider,
\* no external call is ever made (neither the transcript retrieval nor the
\* completion call), and the request ends in a failure.
C2_InvalidProviderNoExternalCall ==
    UnlistedProvider =>
        /\ calls = <<>>
        /\ pc = "done" => outcome.kind = "response" /\ IsFailure(outcome.body)

EmptyCustomRequest ==
    /\ Parsed
    /\ request.data.summary_type = Str("custom")
    /\ request.data.custom_prompt \in {Undefined, Str("")}

\* C3: a request with summary_type custom and empty or absent custom
\* instructions makes no network call and ends in a failure, never in a
\* summary.
C3_EmptyCustomRejected ==
    EmptyCustomRequest =>
        /\ calls = <<>>
        /\ pc = "done" => outcome.kind = "response" /\ IsFailure(outcome.body)

\* C4: for a request whose provider selector is not listed in the
\* configuration table, no completion call is ever issued, the request ends
\* in a failure, and once provider resolution has run that failure is the
\* invalid-provider detail.
C4_UnlistedProviderNoCompletion ==
    UnlistedProvider =>
        /\ NoCompletionCall
        /\ pc = "done" =>
              /\ outcome.kind = "response" /\ IsFailure(outcome.body)
              /\ Ran("resolveProvider") =>
                    outcome.body.detail = Str("Invalid LLM provider selected")

NoIdentifier ==
    /\ Parsed
    /\ request.data.youtube_url.t = "string"
    /\ extractVideoId(request.data.youtube_url.v) = Null

\* C5: when the video reference yields no identifier, the pipeline stops
\* with a failure detail (status 400) and makes neither the transcript fetch
\* nor the completion call.
C5_NoIdentifierShortCircuits ==
    NoIdentifier =>
        /\ calls = <<>>
        /\ pc \in {"json", "done"}
        /\ pc = "done" =>
              /\ outcome.kind = "response"
              /\ IsFailure(outcome.body) /\ ~IsSuccess(outcome.body)
              /\ outcome.status = 400

C5_Witness ==
    /\ pc = "done"
    /\ request.data.youtube_url = Str("not a video")
    /\ ~Falsy(request.data.api_key)
    /\ videoId = Null
    /\ outcome.body = [detail |-> Str("Invalid YouTube URL. Please check and try again.")]

EmptyTranscript ==
    /\ transcriptOutcome.kind = "ok"
    /\ Join(transcriptOutcome.segments, " ") = ""

\* C7: when the retrieval succeeds with nothing (no segments, or segments
\* whose joined text is empty), the request ends in a transcript failure
\* whose detail carries a reason, not the rendering of a missing one, and no
\* completion call is made.
C7_EmptyTranscriptReason ==
    EmptyTranscript =>
        /\ pc = "done"
        /\ outcome.kind = "response"
        /\ IsFailure(outcome.body)
        /\ NoCompletionCall
        /\ outcome.body.detail /= Str("Failed to retrieve transcript: null")
        /\ outcome.body.detail /= Str("Failed to retrieve transcript: undefined")

MissingReferenceOrCredential ==
    /\ Parsed
    /\ \/ request.data.youtube_url \in {Undefined, Str("")}
       \/ request.data.api_key \in {Undefined, Str("")}

\* C8: a request with a missing or empty video reference or credential is
\* rejected with a failure detail before identifier extraction and with no
\* external call.
C8_MissingFieldsRejected ==
    MissingReferenceOrCredential =>
        /\ videoId = NotYet
        /\ ~Ran("extractVideoId")
        /\ calls = <<>>
        /\ pc \in {"json", "done"}
        /\ pc = "done" =>
              /\ outcome.kind = "response"
              /\ IsFailure(outcome.body) /\ ~IsSuccess(outcome.body)
              /\ outcome.status = 400

C8_Witness ==
    /\ pc = "done"
    /\ request.data.youtube_url =
          Str("https://www.youtube.com/watch?v=ABCDEFGHIJK&t=30s")
    /\ request.data.api_key = Str("")
    /\ videoId = NotYet
    /\ outcome.body = [detail |-> Str("Please provide both YouTube URL and API key")]

ConventionIds(s) ==
    {SubSeq(s, i + Len(c), i + Len(c) + IdLen - 1) :
        <<i, c>> \in {ic \in (1..Len(s)) \X {"v=", "youtu.be/", "embed/"} :
                        HasAt(s, ic[1], ic[2]) /\ IdAt(s, ic[1] + Len(ic[2]))}}

\* C10: extractVideoId returns none for a reference in which none of the
\* three conventions (v=, youtu.be/, embed/) is followed by an 11-character
\* identifier, and an identifier it returns is one that follows such a
\* convention in the reference.
C10_NoneWithoutConvention ==
    pc = "extracted" =>
        LET s == request.data.youtube_url.v IN
        /\ ConventionIds(s) = {} => videoId = Null
        /\ videoId /= Null => videoId.v \in ConventionIds(s)

----------------------------------------------------------------------------
(* getTranscript on its own: the collaborator's answer is the input        *)

MaxUnitSegments == 3

UnitSegmentTexts == {"", "a", "b", "c"}

UnitTranscriptOutcomes ==
    {[kind |-> "ok", segments |-> segs] :
        segs \in UNION {[1..n -> UnitSegmentTexts] : n \in 0..MaxUnitSegments}}
    \cup {[kind |-> "throw", thrown |-> e] :
        e \in {ErrorOf("Transcript is disabled on this video"),
               NonError("service unavailable")}}

InitTranscript ==
    /\ route = "multi"
    /\ request = [json |-> "object",
                  data |-> [youtube_url |-> Str("https://youtu.be/ABCDEFGHIJK"),
                            api_key |-> Str("sk-test"),
                            output_language |-> Str("English"),
                            summary_type |-> Str("short"),
                            custom_prompt |-> Undefined,
                            llm_provider |-> Str("openai")]]
    /\ pc = "fetch"
    /\ videoId = Str("ABCDEFGHIJK")
    /\ outcome = Pending
    /\ calls = <<[svc |-> "transcript", videoId |-> Str("ABCDEFGHIJK")]>>
    /\ steps = <<>>
    /\ transcriptOutcome \in UnitTranscriptOutcomes
    /\ transcriptResult = NotYet
    /\ completionOutcome = NoAnswer
    /\ ModuleLoaded

\* line 99: const [transcript, error] = await getTranscript(videoId)
FetchTranscript ==
    /\ pc = "fetch"
    /\ transcriptResult' = getTranscript(transcriptOutcome)
    /\ pc' = "fetched"
    /\ UNCHANGED <<route, request, videoId, outcome, calls, steps,
                   transcriptOutcome, completionOutcome, outsideVars>>

TranscriptSpec == InitTranscript /\ [][FetchTranscript]_vars

\* r, read from position pos, is the texts from the k-th on, in their order,
\* with exactly one space between two consecutive ones and nothing else
RECURSIVE SpacedFrom(_, _, _, _)
SpacedFrom(r, texts, k, pos) ==
    IF k > Len(texts) THEN pos = Len(r) + 1
    ELSE /\ HasAt(r, pos, texts[k])
         /\ IF k = Len(texts) THEN pos + Len(texts[k]) = Len(r) + 1
            ELSE /\ HasAt(r, pos + Len(texts[k]), " ")
                 /\ SpacedFrom(r, texts, k + 1, pos + Len(texts[k]) + 1)

\* C11: for every sequence of caption segments, the transcript is the
\* segments' texts in their original order with exactly one space between
\* consecutive segments, nothing dropped, duplicated or reordered (the
\* segments a, b, c give "a b c"), and the error is null.
C11_JoinKeepsOrder ==
    (pc = "fetched" /\ transcriptOutcome.kind = "ok") =>
        /\ transcriptResult[1].t = "string"
        /\ SpacedFrom(transcriptResult[1].v, transcriptOutcome.segments, 1, 1)
        /\ transcriptResult[2] = Null
        /\ transcriptOutcome.segments = <<"a", "b", "c">> =>
              transcriptResult[1] = Str("a b c")

C11_Witness ==
    /\ pc = "fetched"
    /\ transcriptOutcome = [kind |-> "ok", segments |-> <<"a", "b", "c">>]
    /\ transcriptResult = <<Str("a b c"), Null>>

----------------------------------------------------------------------------
(* createPrompt on its own, as POST calls it at line 124 (route.ts 98):    *)
(* the request fields and the transcript are the inputs                    *)

PromptLanguages == {Str("English"), Str("Original Language"), Str("ko")}

PromptSummaryTypes ==
    {Undefined, Str("short"), Str("detailed"), Str("custom"), Str("full"),
     Str("unknown"), Str("Short")}

PromptCustomPrompts ==
    {Undefined, Str(""), Str("List the key points."), Str("Who speaks?")}

PromptTranscripts == {"a", "a b", "first line\nsecond line"}

InitPrompt ==
    /\ route \in {"multi", "xai"}
    /\ request \in
          {[json |-> "object",
            data |-> [youtube_url |-> Str("https://youtu.be/ABCDEFGHIJK"),
                      api_key |-> Str("xai-test"),
                      output_language |-> l, summary_type |-> st,
                      custom_prompt |-> cp,
                      llm_provider |-> IF route = "multi" THEN Str("openai")
                                       ELSE Undefined]] :
           l \in PromptLanguages, st \in PromptSummaryTypes,
           cp \in PromptCustomPrompts}
    /\ pc = "prompt"
    /\ videoId = Str("ABCDEFGHIJK")
    /\ outcome = Pending
    /\ calls = <<[svc |-> "transcript", videoId |-> Str("ABCDEFGHIJK")]>>
    /\ steps = <<>>
    /\ transcriptOutcome \in
          {[kind |-> "ok", segments |-> <<t>>] : t \in PromptTranscripts}
    /\ transcriptResult = getTranscript(transcriptOutcome)
    /\ completionOutcome = NoAnswer
    /\ ModuleLoaded

\* lines 115-128: the completion request with its two messages
BuildPrompt ==
    /\ pc = "prompt"
    /\ calls' = Append(calls, CompletionCall(request.data, transcriptResult[1],
                                             ConfigLookup(request.data.llm_provider)))
    /\ pc' = "prompted"
    /\ UNCHANGED <<route, request, videoId, outcome, steps, transcriptOutcome,
                   transcriptResult, completionOutcome, outsideVars>>

PromptSpec == InitPrompt /\ [][BuildPrompt]_vars

Contains(s, sub) == \E i \in 1..Len(s) : HasAt(s, i, sub)

StartsWith(s, pre) == HasAt(s, 1, pre)

EndsWith(s, suf) ==
    Len(suf) <= Len(s) /\ SubSeq(s, Len(s) - Len(suf) + 1, Len(s)) = suf

\* the user message of the completion request, and what precedes the
\* transcript in it
UserPrompt == calls[Len(calls)].user

Instruction ==
    SubSeq(UserPrompt, 1, Len(UserPrompt) - Len(transcriptResult[1].v))

\* C12: for summary_type short the prompt is the short template: an
\* instruction with a maximum of 4 sentences, in bullet points, naming the
\* target language, followed by the transcript; the custom instructions do
\* not appear in it, whatever the transcript, the language and they are.
C12_ShortTemplate ==
    (pc = "prompted" /\ request.data.summary_type = Str("short")) =>
        /\ EndsWith(UserPrompt, "\n\n" \o transcriptResult[1].v)
        /\ StartsWith(Instruction, "Please provide a very concise summary")
        /\ Contains(Instruction, "maximum of 4 sentences")
        /\ Contains(Instruction, "bullet points")
        /\ Contains(Instruction, " in " \o request.data.output_language.v)
        /\ ~Falsy(request.data.custom_prompt) =>
              ~Contains(UserPrompt, request.data.custom_prompt.v)

C12_Witness ==
    /\ pc = "prompted"
    /\ route = "multi"
    /\ request.data.summary_type = Str("short")
    /\ request.data.custom_prompt = Str("List the key points.")
    /\ request.data.output_language = Str("ko")
    /\ UserPrompt = "Please provide a very concise summary of the following transcript in ko. Format your response as plain bullet points (without bold formatting), using a maximum of 4 sentences:\n\na b"

CustomWithInstructions ==
    /\ pc = "prompted"
    /\ request.data.summary_type = Str("custom")
    /\ ~Falsy(request.data.custom_prompt)

\* the text between the custom instructions at the start and the transcript
\* at the end
AfterInstructions ==
    SubSeq(UserPrompt, Len(request.data.custom_prompt.v) + 1,
           Len(UserPrompt) - Len(transcriptResult[1].v))

\* C13 as stated: for summary_type custom with non-empty instructions the
\* prompt is, in this order, the instructions verbatim, then the statement
\* that the response must be in the target language, then the transcript.
C13_InstructionsLanguageTranscript ==
    CustomWithInstructions =>
        /\ StartsWith(UserPrompt, request.data.custom_prompt.v)
        /\ EndsWith(UserPrompt, transcriptResult[1].v)
        /\ Len(request.data.custom_prompt.v) + Len(transcriptResult[1].v)
              <= Len(UserPrompt)
        /\ Contains(AfterInstructions,
                    "response in " \o request.data.output_language.v)

\* C13 as amended: the prompt holds the instructions verbatim, the statement
\* that the response must be in the target language, and the transcript at
\* its end; in the xAI-only handler the instructions come first and the
\* language statement follows them, in the multi-provider handler the
\* language statement comes first and the instructions follow it.
C13_CustomPromptParts ==
    CustomWithInstructions =>
        /\ EndsWith(UserPrompt, "Transcript:\n" \o transcriptResult[1].v)
           \/ EndsWith(UserPrompt, "Transcript:\n\n" \o transcriptResult[1].v)
        /\ IF route = "xai"
           THEN /\ StartsWith(Instruction, request.data.custom_prompt.v)
                /\ Contains(AfterInstructions,
                            "response in " \o request.data.output_language.v)
           ELSE LET head == "Please provide your response in "
                            \o request.data.output_language.v
                            \o ". User prompt:\n\n"
                IN  /\ StartsWith(Instruction, head)
                    /\ HasAt(Instruction, Len(head) + 1,
                             request.data.custom_prompt.v)

C13_Witness ==
    /\ pc = "prompted"
    /\ route = "multi"
    /\ request.data.summary_type = Str("custom")
    /\ request.data.custom_prompt = Str("Who speaks?")
    /\ request.data.output_language = Str("English")
    /\ UserPrompt = "Please provide your response in English. User prompt:\n\nWho speaks?\n\n\n\nTranscript:\n\na b"

\* which template the prompt was built from, read off its text
IsShortTemplate ==
    /\ StartsWith(Instruction, "Please provide a very concise summary")
    /\ Contains(Instruction, "maximum of 4 sentences")

IsDetailedTemplate ==
    StartsWith(Instruction,
               IF route = "multi" THEN "Please provide a detailed full summary"
               ELSE "Please provide a comprehensive summary")

IsCustomTemplate ==
    /\ ~Falsy(request.data.custom_prompt)
    /\ Contains(Instruction, request.data.custom_prompt.v)
    /\ Contains(Instruction, "Transcript:")

\* C14: exactly one of the three templates is used for every summary_type,
\* and every value other than 'short' and 'custom' ('detailed', 'full', an
\* unknown string, an absent value) gives the detailed template.
C14_OneTemplateDetailedDefault ==
    pc = "prompted" =>
        /\ Cardinality({k \in {"short", "custom", "detailed"} :
                          \/ k = "short" /\ IsShortTemplate
                          \/ k = "custom" /\ IsCustomTemplate
                          \/ k = "detailed" /\ IsDetailedTemplate}) = 1
        /\ request.data.summary_type \notin {Str("short"), Str("custom")} =>
              /\ IsDetailedTemplate
              /\ EndsWith(UserPrompt, ":\n\n" \o transcriptResult[1].v)
              /\ Contains(Instruction,
                          "summary in " \o request.data.output_language.v)

C14_Witness ==
    /\ pc = "prompted"
    /\ route = "multi"
    /\ request.data.summary_type = Str("full")
    /\ request.data.custom_prompt = Str("Who speaks?")
    /\ UserPrompt = "Please provide a detailed full summary of the following transcript. Provide the summary in English:\n\na"

----------------------------------------------------------------------------
(* POST: the completion request and the shaping of its answer              *)

SupportedProvider ==
    /\ route = "multi"
    /\ Parsed
    /\ request.data.llm_provider \in
          {Str("deepseek"), Str("gemini"), Str("xai"), Str("openai")}

CompletionCalls == {i \in 1..Len(calls) : calls[i].svc = "completion"}

Succeeded ==
    pc = "done" /\ outcome.kind = "response" /\ IsSuccess(outcome.body)

\* C15: for each of the selectors deepseek, gemini, xai and openai the
\* completion call carries that selector's model and base endpoint from the
\* configuration table and the credential of the request, and the model
\* field of a success response is that same model; openai gives "gpt-4o".
C15_ProviderConfigUsed ==
    SupportedProvider =>
        LET entry == LLM_CONFIGS[request.data.llm_provider.v] IN
        /\ \A i \in CompletionCalls :
              /\ calls[i].model = entry.model
              /\ calls[i].baseURL = entry.baseURL
              /\ calls[i].apiKey = request.data.api_key
        /\ Succeeded =>
              /\ CompletionCalls /= {}
              /\ outcome.body.model = entry.model
              /\ request.data.llm_provider = Str("openai") =>
                    /\ outcome.body.model = Str("gpt-4o")
                    /\ \A i \in CompletionCalls :
                          calls[i].baseURL = Str("https://api.openai.com/v1")

C15_Witness ==
    /\ Succeeded
    /\ request.data.llm_provider = Str("openai")
    /\ request.data.api_key = Str("sk-test")
    /\ Len(calls) = 2
    /\ calls[2].svc = "completion"
    /\ calls[2].model = Str("gpt-4o")
    /\ calls[2].apiKey = Str("sk-test")
    /\ outcome.body.model = Str("gpt-4o")

\* the counter the provider reported, 0 where it reported none
Reported(counter) ==
    LET usage == completionOutcome.response.usage
    IN  IF usage = Undefined THEN Num(0)
        ELSE IF counter \notin DOMAIN usage THEN Num(0)
        ELSE usage[counter]

\* C16: a success response has the three counters total, prompt and
\* completion, each an integer: the counter the provider reported, and 0
\* where that counter or the whole usage record is absent.
C16_TokenCountersDefaultZero ==
    Succeeded =>
        /\ DOMAIN outcome.body.tokens = {"t", "total", "prompt", "completion"}
        /\ \A c \in {"total", "prompt", "completion"} :
              /\ outcome.body.tokens[c].t = "number"
              /\ outcome.body.tokens[c].v \in Int
        /\ outcome.body.tokens.total = Reported("total_tokens")
        /\ outcome.body.tokens.prompt = Reported("prompt_tokens")
        /\ outcome.body.tokens.completion = Reported("completion_tokens")

C16_Witness ==
    /\ Succeeded
    /\ completionOutcome.response.usage =
          [t |-> "object", prompt_tokens |-> Num(20), completion_tokens |-> Num(0)]
    /\ outcome.body.tokens =
          [t |-> "object", total |-> Num(0), prompt |-> Num(20),
           completion |-> Num(0)]

\* the completion service answered without text: no choices, a choice
\* without message, or a message whose content is null or empty
NoTextualContent ==
    /\ completionOutcome.kind = "ok"
    /\ LET c == completionOutcome.response.choices
       IN  \/ c = <<>>
           \/ "message" \notin DOMAIN c[1]
           \/ c[1].message.content = Null
           \/ c[1].message.content = Str("")

\* C17: when the completion call returns no textual content, the request
\* ends in a failure detail and never in a success result.
C17_NoContentIsFailure ==
    NoTextualContent =>
        /\ pc = "done"
        /\ outcome.kind = "response"
        /\ IsFailure(outcome.body) /\ ~IsSuccess(outcome.body)
        /\ outcome.body.detail = Str("No response content from API")
        /\ outcome.status = 500

C17_Witness ==
    /\ pc = "done"
    /\ completionOutcome.kind = "ok"
    /\ completionOutcome.response.choices = <<Choice(Message(Str("")))>>
    /\ outcome.kind = "response"
    /\ outcome.body = [detail |-> Str("No response content from API")]

----------------------------------------------------------------------------
(* POST: failures, external calls and the order of the steps               *)

\* something failed on the way: the body could not be read as an object,
\* the transcript retrieval threw, or the completion call threw
SomethingThrew ==
    \/ ~Parsed
    \/ transcriptOutcome.kind = "throw"
    \/ completionOutcome.kind = "throw"

\* C18: an unparseable request body, a throwing transcript retrieval and a
\* throwing completion call are each caught and answered with a response
\* whose body is {detail: <text>}; nothing the handler ever produces is
\* anything but a response (no error leaves it).
C18_FailuresBecomeDetail ==
    /\ outcome.kind \in {"pending", "response"}
    /\ (SomethingThrew /\ pc /= "json") =>
          /\ pc = "done"
          /\ outcome.kind = "response"
          /\ DOMAIN outcome.body = {"detail"}
          /\ outcome.body.detail.t = "string"
          /\ outcome.body.detail.v /= ""
          /\ outcome.status \in {400, 500}

C18_Witness ==
    /\ pc = "done"
    /\ completionOutcome =
          [kind |-> "throw", thrown |-> ErrorOf("401 Incorrect API key provided")]
    /\ outcome = [kind |-> "response", status |-> 500,
                  body |-> [detail |-> Str("401 Incorrect API key provided")]]

TranscriptCalls == {i \in 1..Len(calls) : calls[i].svc = "transcript"}

\* C19: within one request the transcript retrieval is called at most once
\* and the completion service at most once, and a failure of either ends the
\* request: no external call follows it and the handler takes no further
\* step.
C19_NoRetry ==
    /\ Cardinality(TranscriptCalls) <= 1
    /\ Cardinality(CompletionCalls) <= 1
    /\ transcriptOutcome.kind = "throw" =>
          pc = "done" /\ Len(calls) = 1 /\ TranscriptCalls = {1}
    /\ completionOutcome.kind = "throw" =>
          pc = "done" /\ Len(calls) = 2 /\ CompletionCalls = {2}
    /\ pc = "done" => ~ENABLED Next

C19_Witness ==
    /\ pc = "done"
    /\ completionOutcome.kind = "throw"
    /\ Len(calls) = 2
    /\ calls[1].svc = "transcript"
    /\ calls[2].svc = "completion"
    /\ IsFailure(outcome.body)

\* the steps of POST in the order of the source text
StepOrder ==
    <<"parse", "validate", "extractVideoId", "fetchTranscript",
      "resolveProvider", "createPrompt", "completion", "shape">>

StepIndex(step) == CHOOSE i \in 1..Len(StepOrder) : StepOrder[i] = step

\* C20: the steps of one request occur only in the order resolve
\* identifier, fetch transcript, resolve provider configuration, build
\* prompt, call model, shape response, none of them twice; the completion
\* call is issued only after the transcript retrieval has answered with a
\* non-empty transcript and (multi-provider handler) the configuration has
\* been looked up, and at most one external call is outstanding at a time.
C20_LinearSinglePass ==
    /\ \A i \in 1..Len(steps) : \E k \in 1..Len(StepOrder) : steps[i] = StepOrder[k]
    /\ \A i, j \in 1..Len(steps) :
          i < j => StepIndex(steps[i]) < StepIndex(steps[j])
    /\ CompletionCalls /= {} =>
          /\ calls[1].svc = "transcript"
          /\ CompletionCalls = {2}
          /\ transcriptOutcome.kind = "ok"
          /\ transcriptResult[1].t = "string"
          /\ transcriptResult[1].v /= ""
          /\ transcriptResult[2] = Null
          /\ Ran("extractVideoId") /\ Ran("fetchTranscript")
          /\ Ran("createPrompt") /\ Ran("completion")
          /\ route = "multi" => Ran("resolveProvider")
    /\ pc = "transcript" => Len(calls) = 1 /\ transcriptOutcome = NoAnswer
    /\ pc = "completion" => Len(calls) = 2 /\ completionOutcome = NoAnswer
    /\ Ran("shape") => Succeeded

C20_Witness ==
    /\ Succeeded
    /\ route = "multi"
    /\ steps = StepOrder
    /\ Len(calls) = 2
    /\ transcriptResult = <<Str("a b"), Null>>

----------------------------------------------------------------------------
(* Two invocations of POST in one server process.  JavaScript runs one     *)
(* invocation at a time and changes over only where the running one        *)
(* awaits: the locals of the others are kept in their closures, the        *)
(* module-level object LLM_CONFIGS is the same for all.                    *)

\* the locals of the running invocation
Locals ==
    [route |-> route, request |-> request, pc |-> pc, videoId |-> videoId,
     outcome |-> outcome, calls |-> calls, steps |-> steps,
     transcriptOutcome |-> transcriptOutcome,
     transcriptResult |-> transcriptResult,
     completionOutcome |-> completionOutcome]

\* an invocation whose request has arrived and whose body is being read
Arrived(rt, req) ==
    [route |-> rt, request |-> req, pc |-> "json", videoId |-> NotYet,
     outcome |-> Pending, calls |-> <<>>, steps |-> <<>>,
     transcriptOutcome |-> NoAnswer, transcriptResult |-> NotYet,
     completionOutcome |-> NoAnswer]

FirstRequest ==
    [json |-> "object",
     data |-> [youtube_url |-> Str("https://www.youtube.com/watch?v=ABCDEFGHIJK&t=30s"),
               api_key |-> Str("sk-test"), output_language |-> Str("English"),
               summary_type |-> Str("short"), custom_prompt |-> Undefined,
               llm_provider |-> Str("openai")]]

OtherArrivals ==
    {Arrived("xai",
             [json |-> "object",
              data |-> [youtube_url |-> Str("https://youtu.be/dQw4w9WgXcQ"),
                        api_key |-> Str("xai-test"),
                        output_language |-> Str("ko"),
                        summary_type |-> Str("detailed"),
                        custom_prompt |-> Undefined,
                        llm_provider |-> Undefined]]),
     Arrived("multi",
             [json |-> "object",
              data |-> [youtube_url |-> Str("https://www.youtube.com/embed/0123456789a"),
                        api_key |-> Str("sk-other"),
                        output_language |-> Str("ko"),
                        summary_type |-> Str("custom"),
                        custom_prompt |-> Str("List the key points."),
                        llm_provider |-> Str("unknown-llm")]]),
     Arrived("multi",
             [json |-> "object",
              data |-> [youtube_url |-> Str("https://youtu.be/zZ9_-aB3xY0?t=30"),
                        api_key |-> Str("AIza-test"),
                        output_language |-> Str("ko"),
                        summary_type |-> Str("detailed"),
                        custom_prompt |-> Undefined,
                        llm_provider |-> Str("gemini")]]),
     Arrived("multi", [json |-> "invalid", data |-> CHOOSE d \in NoData : TRUE])}

InitConcurrent ==
    /\ route = "multi"
    /\ request = FirstRequest
    /\ pc = "json"
    /\ videoId = NotYet
    /\ outcome = Pending
    /\ calls = <<>>
    /\ steps = <<>>
    /\ transcriptOutcome = NoAnswer
    /\ transcriptResult = NotYet
    /\ completionOutcome = NoAnswer
    /\ llmConfigs = LLM_CONFIGS
    /\ featureRequests = <<>>
    /\ answered = <<>>
    /\ Mounted
    /\ suspended \in {<<a>> : a \in OtherArrivals}
                     \cup {<<a, Arrived("multi", FirstRequest)>> :
                              a \in OtherArrivals}

\* a change-over that leaves the transcript where it is, as if it were kept
\* in a module-level variable
ResumeSharingTranscript ==
    \E i \in 1..Len(suspended) :
        LET next == suspended[i] IN
        /\ next.pc /= "done"
        /\ route' = next.route
        /\ request' = next.request
        /\ pc' = next.pc
        /\ videoId' = next.videoId
        /\ outcome' = next.outcome
        /\ calls' = next.calls
        /\ steps' = next.steps
        /\ completionOutcome' = next.completionOutcome
        /\ suspended' = [suspended EXCEPT ![i] = Locals]
        /\ UNCHANGED <<transcriptOutcome, transcriptResult, moduleVars, uiVars,
                       answered>>

\* the running invocation is at an await (or has returned) and another
\* invocation, whose awaited result is there, goes on
Resume ==
    \E i \in 1..Len(suspended) :
        LET next == suspended[i] IN
        /\ next.pc /= "done"
        /\ route' = next.route
        /\ request' = next.request
        /\ pc' = next.pc
        /\ videoId' = next.videoId
        /\ outcome' = next.outcome
        /\ calls' = next.calls
        /\ steps' = next.steps
        /\ transcriptOutcome' = next.transcriptOutcome
        /\ transcriptResult' = next.transcriptResult
        /\ completionOutcome' = next.completionOutcome
        /\ suspended' = [suspended EXCEPT ![i] = Locals]
        /\ UNCHANGED <<moduleVars, uiVars, answered>>

\* the answers the collaborators give in the runs with several invocations
SomeTranscriptOutcomes ==
    {[kind |-> "ok", segments |-> <<>>],
     [kind |-> "ok", segments |-> <<"a", "b">>],
     [kind |-> "ok", segments |-> <<"b">>],
     [kind |-> "throw", thrown |-> ErrorOf("Transcript is disabled on this video")]}

SomeCompletionOutcomes ==
    {[kind |-> "throw", thrown |-> ErrorOf("401 Incorrect API key provided")],
     [kind |-> "ok", response |-> [choices |-> <<>>, usage |-> Undefined]],
     [kind |-> "ok",
      response |-> [choices |-> <<Choice(Message(Str(" - point one\n - point two\n")))>>,
                    usage |-> [t |-> "object", total_tokens |-> Num(30),
                               prompt_tokens |-> Num(20),
                               completion_tokens |-> Num(10)]]],
     [kind |-> "ok",
      response |-> [choices |-> <<Choice(Message(Str("The speaker greets.")))>>,
                    usage |-> Undefined]]}

NextConcurrent ==
    \/ ParseRequest
    \/ TranscriptSettlesAmong(SomeTranscriptOutcomes)
    \/ CompletionSettlesAmong(SomeCompletionOutcomes)
    \/ Resume

ConcurrentSpec == InitConcurrent /\ [][NextConcurrent]_vars

\* the calls and the response of the invocation with locals L are made of
\* its own request fields and its own collaborator results
OwnOnly(L) ==
    LET d == L.request.data IN
    /\ L.calls /= <<>> =>
          /\ L.request.json = "object"
          /\ d.youtube_url.t = "string"
          /\ L.calls[1] = [svc |-> "transcript",
                           videoId |-> extractVideoId(d.youtube_url.v)]
    /\ Len(L.calls) >= 2 =>
          /\ L.transcriptOutcome.kind = "ok"
          /\ L.calls[2].apiKey = d.api_key
          /\ EndsWith(L.calls[2].user, Join(L.transcriptOutcome.segments, " "))
          /\ Contains(L.calls[2].user, d.output_language.v)
          /\ Contains(L.calls[2].system, d.output_language.v)
          /\ L.calls[2].model =
                IF L.route = "xai" THEN Str("grok-beta")
                ELSE LLM_CONFIGS[d.llm_provider.v].model
    /\ L.pc = "done" =>
          /\ L.outcome.kind = "response"
          /\ IsSuccess(L.outcome.body) =>
                /\ L.completionOutcome.kind = "ok"
                /\ L.outcome.body.summary =
                      Str(Trim(L.completionOutcome.response.choices[1].message.content.v))
                /\ L.outcome.body.model = L.calls[2].model
                /\ L.outcome.body.tokens.prompt \in
                      {Num(0), Get(L.completionOutcome.response.usage,
                                   "prompt_tokens")}
          /\ L.transcriptOutcome.kind = "throw" =>
                L.outcome.body =
                   [detail |-> Str("Failed to retrieve transcript: "
                                   \o (IF L.transcriptOutcome.thrown.isError
                                       THEN L.transcriptOutcome.thrown.message
                                       ELSE "Failed to fetch transcript"))]
          /\ L.completionOutcome.kind = "throw" =>
                L.outcome.body =
                   [detail |-> Str(IF L.completionOutcome.thrown.isError
                                   THEN L.completionOutcome.thrown.message
                                   ELSE "An unexpected error occurred")]
          /\ ~L.request.json = "object" => Len(L.calls) = 0
          /\ (L.transcriptOutcome = NoAnswer) = (Len(L.calls) = 0)
          /\ (L.completionOutcome = NoAnswer) = (Len(L.calls) < 2)

\* C21: under every interleaving of two invocations at their suspension
\* points, the calls and the response of each are made of its own request
\* fields and its own collaborator results only, and LLM_CONFIGS is what it
\* was when the module was loaded.
C21_RequestsDoNotInterfere ==
    /\ OwnOnly(Locals)
    /\ \A i \in 1..Len(suspended) : OwnOnly(suspended[i])
    /\ llmConfigs = LLM_CONFIGS

\* both invocations have answered, the one that arrived first after the
\* other one, each from its own results
C21_Witness ==
    /\ pc = "done"
    /\ request = FirstRequest
    /\ IsSuccess(outcome.body)
    /\ transcriptOutcome = [kind |-> "ok", segments |-> <<"a", "b">>]
    /\ Len(suspended) = 1
    /\ suspended[1].pc = "done"
    /\ suspended[1].route = "xai"
    /\ suspended[1].transcriptOutcome = [kind |-> "ok", segments |-> <<"b">>]
    /\ suspended[1].completionOutcome.kind = "throw"
    /\ suspended[1].outcome.body = [detail |-> Str("401 Incorrect API key provided")]

----------------------------------------------------------------------------
(* POST: status codes, the key format, the configuration used, the summary *)

\* C22: status and body always agree: a {detail} body comes with status 400
\* when the request was refused at validation or for its transcript and
\* with status 500 when the body could not be read or the completion
\* failed; a success body comes with status 200; status 200 comes with
\* nothing but a success body.
C22_StatusMatchesBody ==
    (pc = "done" /\ outcome.kind = "response") =>
        /\ IsFailure(outcome.body) =>
              outcome.status =
                 IF ~Parsed \/ completionOutcome /= NoAnswer THEN 500 ELSE 400
        /\ IsSuccess(outcome.body) => outcome.status = 200
        /\ outcome.status = 200 =>
              IsSuccess(outcome.body) /\ ~IsFailure(outcome.body)
        /\ outcome.status \in {200, 400, 500}

C22_Witness ==
    /\ pc = "done"
    /\ Parsed
    /\ transcriptOutcome.kind = "throw"
    /\ outcome.status = 400
    /\ IsFailure(outcome.body)

\* the credential is a string that does not start with 'xai-'
NoXaiPrefix ==
    /\ Parsed
    /\ request.data.api_key.t = "string"
    /\ request.data.api_key.v /= ""
    /\ SubSeq(request.data.api_key.v, 1, 4) /= "xai-"

\* C23: the xAI-only handler answers a credential that does not start with
\* 'xai-' with a status-400 failure before it extracts the identifier,
\* fetches the transcript or calls the completion service; an external call
\* is only ever made with a credential that starts with 'xai-'.
C23_XaiKeyFormatFirst ==
    route = "xai" =>
        /\ (NoXaiPrefix /\ pc /= "json") =>
              /\ pc = "done"
              /\ outcome.kind = "response"
              /\ outcome.status = 400
              /\ IsFailure(outcome.body)
              /\ ~Falsy(request.data.youtube_url) =>
                    outcome.body.detail =
                       Str("Invalid API key format. X.AI API keys should start with 'xai-'")
              /\ videoId = NotYet
              /\ ~Ran("extractVideoId")
              /\ calls = <<>>
        /\ calls /= <<>> =>
              /\ request.data.api_key.t = "string"
              /\ SubSeq(request.data.api_key.v, 1, 4) = "xai-"

C23_Witness ==
    /\ route = "xai"
    /\ pc = "done"
    /\ request.data.api_key = Str("sk-test")
    /\ request.data.youtube_url = Str("https://www.youtube.com/watch?v=ABCDEFGHIJK&t=30s")
    /\ outcome.status = 400
    /\ outcome.body =
          [detail |-> Str("Invalid API key format. X.AI API keys should start with 'xai-'")]
    /\ calls = <<>>

\* the model names and the base URLs of the four entries of LLM_CONFIGS
ConfiguredPairs ==
    {<<LLM_CONFIGS[k].model, LLM_CONFIGS[k].baseURL>> : k \in DOMAIN LLM_CONFIGS}

\* C24: whenever the multi-provider handler issues a completion call, the
\* model and the base URL of the call are defined and are those of one of
\* the four entries of LLM_CONFIGS, whatever the selector string is.
C24_CompletionUsesListedConfig ==
    route = "multi" =>
        \A i \in CompletionCalls :
            /\ calls[i].model /= Undefined
            /\ calls[i].baseURL /= Undefined
            /\ <<calls[i].model, calls[i].baseURL>> \in ConfiguredPairs

\* C25: the summary of every success response is a string of length greater
\* than zero, whatever content the completion service returned.
C25_SummaryNotEmpty ==
    Succeeded =>
        /\ outcome.body.summary.t = "string"
        /\ Len(outcome.body.summary.v) > 0

----------------------------------------------------------------------------
(* The page: YoutubeSummarizer (src/components/youtube-summarizer.tsx).    *)
(* handleSummarize runs up to its await in one step and from the settling  *)
(* of fetch (and of response.json()) to its end in another; the user's     *)
(* clicks, keys and edits come in between.  The server is an input here.   *)

MaxInvocations == 2

UrlTexts == {"", "https://youtu.be/ABCDEFGHIJK"}
KeyTexts == {"", "xai-test"}
PromptTexts == {"", "Who speaks?"}

\* no invocation of a route handler is followed
NoInvocation ==
    /\ route = "xai"
    /\ request = NoAnswer
    /\ pc = "idle"
    /\ videoId = NotYet
    /\ outcome = Pending
    /\ calls = <<>>
    /\ steps = <<>>
    /\ transcriptOutcome = NoAnswer
    /\ transcriptResult = NotYet
    /\ completionOutcome = NoAnswer

InitUi ==
    /\ NoInvocation
    /\ llmConfigs = LLM_CONFIGS
    /\ featureRequests = <<>>
    /\ answered = <<>>
    /\ suspended = <<>>
    /\ Mounted

notUiVars == <<postVars, moduleVars, suspended, answered>>

\* the requests that have been sent and whose fetch has not settled
InFlight == {i \in 1..Len(fetches) : fetches[i].result = NoAnswer}

\* lines 99-130: handleSummarize from its start to the await of fetch
handleSummarize(summaryType) ==
    /\ IF youtubeUrl = "" \/ apiKey = ""
       THEN /\ errorState' = "Please provide both YouTube Video URL and API key"
            /\ UNCHANGED <<youtubeUrl, apiKey, customPromptState, isLoading,
                           summary, responseState, loadingInterval, intervals,
                           fetches>>
       ELSE /\ Len(fetches) < MaxInvocations
            /\ isLoading' = TRUE
            /\ errorState' = ""
            /\ summary' = ""
            /\ responseState' = Null
            /\ LET id == Len(fetches) + 1 IN
               /\ intervals' = intervals \cup {id}
               /\ loadingInterval' = Num(id)
               /\ fetches' = Append(fetches,
                      [youtube_url |-> youtubeUrl, api_key |-> apiKey,
                       summary_type |-> summaryType,
                       custom_prompt |-> IF summaryType = "custom"
                                         THEN Str(customPromptState)
                                         ELSE Undefined,
                       result |-> NoAnswer])
            /\ UNCHANGED <<youtubeUrl, apiKey, customPromptState>>
    /\ UNCHANGED notUiVars

\* lines 286-308: the three buttons, disabled while isLoading
ClickFullSummary == ~isLoading /\ handleSummarize("detailed")
ClickShortSummary == ~isLoading /\ handleSummarize("short")
ClickSubmitPrompt ==
    /\ ~isLoading
    /\ Trim(customPromptState) /= ""
    /\ handleSummarize("custom")

\* lines 199-205 and useKeyboardShortcut.ts lines 17-26: Cmd+F, Cmd+S, Cmd+P
ShortcutF == handleSummarize("detailed")
ShortcutS == handleSummarize("short")
ShortcutP == Trim(customPromptState) /= "" /\ handleSummarize("custom")

\* the inputs, which stay editable while a request is outstanding
EditInputs ==
    /\ \E u \in UrlTexts, k \in KeyTexts, p \in PromptTexts :
          /\ <<u, k, p>> /= <<youtubeUrl, apiKey, customPromptState>>
          /\ youtubeUrl' = u
          /\ apiKey' = k
          /\ customPromptState' = p
    /\ UNCHANGED <<isLoading, summary, errorState, responseState,
                   loadingInterval, intervals, fetches>>
    /\ UNCHANGED notUiVars

\* what fetch and response.json() can give for the request f
FetchResults(f) ==
    {[kind |-> "json", ok |-> TRUE,
      data |-> [success |-> TRUE, summary |-> "Summary (" \o f.summary_type \o ")",
                model |-> "grok-beta"]],
     [kind |-> "json", ok |-> FALSE,
      data |-> [detail |-> "Failed to retrieve transcript: Transcript is disabled on this video"]],
     [kind |-> "unparseable", ok |-> FALSE],
     [kind |-> "rejected"]}

\* setIsLoading(false) and clearInterval at the end of the try block: not
\* reached when fetch rejects
ClearLoadingOnResponse(r) ==
    IF r.kind = "rejected" THEN UNCHANGED <<isLoading, intervals>>
    ELSE /\ isLoading' = FALSE
         /\ intervals' = IF Falsy(loadingInterval) THEN intervals
                         ELSE intervals \ {loadingInterval.v}

\* lines 143-148: the finally block, run whatever the result r is
ClearLoading(r) ==
    /\ isLoading' = FALSE
    /\ intervals' = IF Falsy(loadingInterval) THEN intervals
                    ELSE intervals \ {loadingInterval.v}

\* lines 132-148: handleSummarize from the settling of fetch to its end
FetchSettlesFor(i) ==
    /\ i \in InFlight
    /\ \E r \in FetchResults(fetches[i]) :
          /\ fetches' = [fetches EXCEPT ![i].result = r]
          /\ IF r.kind = "json"
             THEN IF r.ok /\ "success" \in DOMAIN r.data /\ r.data.success
                  THEN /\ summary' = r.data.summary
                       /\ responseState' = r.data
                       /\ UNCHANGED errorState
                  ELSE /\ errorState' = "Failed to generate summary. Please check your API key and YouTube URL."
                       /\ UNCHANGED <<summary, responseState>>
             ELSE /\ errorState' = "Network error or server is not responding."
                  /\ UNCHANGED <<summary, responseState>>
          /\ ClearLoading(r)
    /\ UNCHANGED <<youtubeUrl, apiKey, customPromptState, loadingInterval>>
    /\ UNCHANGED notUiVars

FetchSettles == \E i \in 1..MaxInvocations : FetchSettlesFor(i)

NextUi ==
    \/ ClickFullSummary \/ ClickShortSummary \/ ClickSubmitPrompt
    \/ ShortcutF \/ ShortcutS \/ ShortcutP
    \/ EditInputs
    \/ FetchSettles

UiSpec == InitUi /\ [][NextUi]_vars

\* the page with its fields filled in one of the possible ways and left
\* alone from then on (nothing after the await reads them), and every fetch
\* settling at some time
InitFilled ==
    /\ NoInvocation
    /\ llmConfigs = LLM_CONFIGS
    /\ featureRequests = <<>>
    /\ answered = <<>>
    /\ suspended = <<>>
    /\ youtubeUrl \in UrlTexts
    /\ apiKey \in KeyTexts
    /\ customPromptState \in PromptTexts
    /\ isLoading = FALSE
    /\ summary = ""
    /\ errorState = ""
    /\ responseState = Null
    /\ loadingInterval = Undefined
    /\ intervals = {}
    /\ fetches = <<>>

NextSummarize ==
    \/ ClickFullSummary \/ ClickShortSummary \/ ClickSubmitPrompt
    \/ ShortcutF \/ ShortcutS \/ ShortcutP
    \/ FetchSettles

UiFairSpec ==
    /\ InitFilled
    /\ [][NextSummarize]_vars
    /\ \A i \in 1..MaxInvocations : WF_vars(FetchSettlesFor(i))

----------------------------------------------------------------------------
(* The page: requests in flight, timers, and what is displayed             *)

\* C26: at most one summarize request is in flight at any time, and
\* isLoading is true exactly while a request is outstanding (handleSummarize
\* is never started, by a button or by Cmd+F, Cmd+S, Cmd+P, while isLoading
\* is true).
C26_OneRequestInFlight ==
    /\ Cardinality(InFlight) <= 1
    /\ isLoading = (InFlight /= {})

\* C27: whenever no summarize request is in flight, no loading timer
\* started by handleSummarize is still running.
C27_NoTimerLeftRunning == InFlight = {} => intervals = {}

Shows(r) ==
    IF r.kind = "json" /\ r.ok /\ "success" \in DOMAIN r.data
    THEN /\ summary = r.data.summary
         /\ responseState = r.data
         /\ errorState \in {"", "Please provide both YouTube Video URL and API key"}
    ELSE /\ summary = ""
         /\ responseState = Null
         /\ errorState \in
               {IF r.kind = "json"
                THEN "Failed to generate summary. Please check your API key and YouTube URL."
                ELSE "Network error or server is not responding.",
                "Please provide both YouTube Video URL and API key"}

\* C29: once all requests that were sent have completed, the summary, the
\* error and the processing info on the page are those of the request sent
\* last.
C29_LatestRequestShown ==
    (fetches /= <<>> /\ InFlight = {}) => Shows(fetches[Len(fetches)].result)

----------------------------------------------------------------------------
(* The feature-request route (src/unnamed/part_003): POST and GET, one     *)
(* request after the other, around the module-level cache featureRequests. *)
(* GitHub is an input.                                                     *)

MaxFeaturePosts == 2

RequestTexts == {Undefined, Str(""), Str("  "), Str(" Add dark mode "), Str("Export")}
RequesterNames == {Undefined, Str(""), Str(" Ann ")}

FeatureBodies ==
    {[method |-> "POST", json |-> "invalid",
      data |-> [request_text |-> Undefined, requester_name |-> Undefined]]}
    \cup {[method |-> "POST", json |-> "object",
           data |-> [request_text |-> x, requester_name |-> n]] :
          x \in RequestTexts, n \in RequesterNames}

\* createGitHubIssue (lines 28-83): the issue is created, or the call
\* throws (no configuration, a response that is not ok, a rejected fetch)
GitHubOutcomes == {"created", "not configured", "api error", "rejected"}

\* x?.trim()
OptTrim(x) == IF x.t \in {"undefined", "null"} THEN Undefined ELSE Str(Trim(x.v))

JsArray(seq) == [t |-> "array", v |-> seq]

InitFeature ==
    /\ route = "feature-request"
    /\ request = NoAnswer
    /\ pc = "idle"
    /\ videoId = NotYet
    /\ outcome = Pending
    /\ calls = <<>>
    /\ steps = <<>>
    /\ transcriptOutcome = NoAnswer
    /\ transcriptResult = NotYet
    /\ completionOutcome = NoAnswer
    /\ llmConfigs = LLM_CONFIGS
    /\ featureRequests = <<>>
    /\ answered = <<>>
    /\ suspended = <<>>
    /\ Mounted

featureFrame ==
    UNCHANGED <<route, videoId, steps, transcriptOutcome, transcriptResult,
                completionOutcome, llmConfigs, suspended, uiVars>>

\* lines 142-170: POST from the arrival of the body to the await of
\* createGitHubIssue
FeaturePostArrives ==
    /\ pc \in {"idle", "done"}
    /\ Len(answered) < MaxFeaturePosts
    /\ featureFrame
    /\ \E body \in FeatureBodies :
        /\ request' = body
        /\ IF body.json /= "object"
           THEN /\ outcome' = Response([detail |-> Str("Failed to process feature request")], 500)
                /\ answered' = Append(answered, [entry |-> Null, status |-> 500])
                /\ pc' = "done"
                /\ UNCHANGED <<featureRequests, calls>>
           ELSE IF Falsy(OptTrim(body.data.request_text))
           THEN /\ outcome' = Response([detail |-> Str("Request text is required")], 400)
                /\ answered' = Append(answered, [entry |-> Null, status |-> 400])
                /\ pc' = "done"
                /\ UNCHANGED <<featureRequests, calls>>
           ELSE LET name == OptTrim(body.data.requester_name)
                    newRequest ==
                       [request_text |-> Trim(body.data.request_text.v),
                        requester_name |-> IF Falsy(name) THEN "Anonymous"
                                           ELSE name.v,
                        timestamp |-> Len(answered) + 1]
                IN  /\ featureRequests' = Append(featureRequests, newRequest)
                    /\ calls' = Append(calls,
                          [svc |-> "createGitHubIssue",
                           title |-> "Feature Request by " \o newRequest.requester_name,
                           body |-> newRequest.request_text])
                    /\ pc' = "github"
                    /\ outcome' = Pending
                    /\ UNCHANGED answered

\* lines 165-184: POST from the settling of createGitHubIssue to its end;
\* newRequest is the entry pushed at line 161
FeatureIssueSettles ==
    /\ pc = "github"
    /\ featureFrame
    /\ UNCHANGED <<request, calls, featureRequests>>
    /\ pc' = "done"
    /\ LET newRequest == featureRequests[Len(featureRequests)] IN
       \E o \in GitHubOutcomes :
          IF o = "created"
          THEN /\ outcome' = Response([success |-> Bool(TRUE)], 200)
               /\ answered' = Append(answered, [entry |-> newRequest, status |-> 200])
          ELSE /\ outcome' = Response([detail |-> Str("Failed to create GitHub issue")], 500)
               /\ answered' = Append(answered, [entry |-> newRequest, status |-> 500])

\* the requests GitHub has an issue for
Issues == {answered[j].entry : j \in {k \in 1..Len(answered) : answered[k].status = 200}}

\* lines 124-140: GET, with the issues of GitHub or, when getGitHubIssues
\* throws, with the cache
FeatureGet ==
    /\ pc \in {"idle", "done"}
    /\ featureFrame
    /\ UNCHANGED <<calls, featureRequests, answered>>
    /\ pc' = "done"
    /\ \E o \in {"listed", "thrown"} :
          /\ request' = [method |-> "GET", github |-> o]
          /\ outcome' =
                Response([requests |->
                             JsArray(IF o = "thrown" THEN featureRequests
                                     ELSE SelectSeq(featureRequests,
                                                    LAMBDA e : e \in Issues))],
                         200)

NextFeature == FeaturePostArrives \/ FeatureIssueSettles \/ FeatureGet

FeatureSpec == InitFeature /\ [][NextFeature]_vars

\* C30: the cache holds only requests whose POST returned success: after a
\* POST that returned a failure (empty text, issue creation failed,
\* unparseable body) the cache has no entry for it, and the fallback GET
\* lists no request whose submission was reported as failed.
C30_CacheHoldsSuccessesOnly ==
    pc /= "github" =>
        /\ \A k \in 1..Len(featureRequests) : featureRequests[k] \in Issues
        /\ (pc = "done" /\ request.method = "GET") =>
              \A k \in 1..Len(outcome.body.requests.v) :
                  outcome.body.requests.v[k] \in Issues

====
